---- MODULE Spec2Model ----
(***************************************************************************)
(* Model of snowmicropyn.profile.Profile (src/snowmicropyn/profile.py).    *)
(*                                                                         *)
(* The module runs only under Python 2 (it imports ConfigParser), so the   *)
(* library calls are modelled with their Python 2.7 behaviour:             *)
(*   - str(float) keeps 12 significant digits,                             *)
(*   - RawConfigParser.optionxform lower-cases option names,               *)
(*   - RawConfigParser.remove_option returns False for an absent option,   *)
(*   - RawConfigParser.write emits "name = value" lines and _read splits   *)
(*     each line at its first '=' or ':'.                                  *)
(*                                                                         *)
(* Text (marker names, stored values, lines of the ini file) is a sequence *)
(* of one-character strings.  Depths and marker values are integers on a   *)
(* grid of StrStep points per unit of the last digit that str() keeps.     *)
(***************************************************************************)
EXTENDS Integers, Sequences, FiniteSets, TLC

VARIABLES
    header,     \* the four pnt header fields read by the coordinate clean-up
    latitude,   \* self.latitude
    longitude,  \* self.longitude
    samples,    \* self.samples: rows [d |-> depth, f |-> force]
    ini,        \* self._ini, section 'markers': ordered <<[opt, val]>>
    ini_filename, \* self.ini_filename
    files,      \* the ini files on disk: path -> lines, or Absent
    s,          \* caller's local: value returned by detect_surface()
    g,          \* caller's local: value returned by detect_ground()
    res         \* what the last call did: its arguments and its outcome

vars == <<header, latitude, longitude, samples, ini, ini_filename, files, s, g, res>>

----------------------------------------------------------------------------
(* Bounds of the model *)

MaxValue == 2      \* marker values and fallbacks range over 0..MaxValue
StrStep == 3       \* grid points per unit of the 12th significant digit
MaxRows == 3       \* sample tables have 1..MaxRows rows
MaxDepth == 3      \* sample depths range over 0..MaxDepth
MaxCoord == 2      \* header latitude / longitude magnitudes 0..MaxCoord

----------------------------------------------------------------------------
(* Python values *)

\* Python's None, where a number is expected (all numbers of the model are >= 0
\* except negated coordinates, which are never compared with NoneVal).
NoneVal == -1

\* "no such file" for a path of files
Absent == << <<"<absent>">> >>

UpperCase == <<"A","B","C","D","E","F","G","H","I","J","K","L","M",
               "N","O","P","Q","R","S","T","U","V","W","X","Y","Z">>
LowerCase == <<"a","b","c","d","e","f","g","h","i","j","k","l","m",
               "n","o","p","q","r","s","t","u","v","w","x","y","z">>
Digits == <<"0","1","2","3","4","5","6","7","8","9">>

\* str.lower() / str.upper() on one character
lowerChar(c) ==
    IF \E i \in 1..26 : UpperCase[i] = c
    THEN LowerCase[CHOOSE i \in 1..26 : UpperCase[i] = c]
    ELSE c

upperChar(c) ==
    IF \E i \in 1..26 : LowerCase[i] = c
    THEN UpperCase[CHOOSE i \in 1..26 : LowerCase[i] = c]
    ELSE c

lower(t) == [i \in 1..Len(t) |-> lowerChar(t[i])]
upper(t) == [i \in 1..Len(t) |-> upperChar(t[i])]

isSpace(c) == c \in {" ", "\t", "\n"}

RECURSIVE lstrip(_)
lstrip(t) == IF t # <<>> /\ isSpace(Head(t)) THEN lstrip(Tail(t)) ELSE t

RECURSIVE rstrip(_)
rstrip(t) ==
    IF t # <<>> /\ isSpace(t[Len(t)]) THEN rstrip(SubSeq(t, 1, Len(t) - 1)) ELSE t

strip(t) == lstrip(rstrip(t))

\* decimal numeral of a natural number
RECURSIVE Numeral(_)
Numeral(n) ==
    IF n < 10 THEN <<Digits[n + 1]>>
    ELSE Numeral(n \div 10) \o <<Digits[(n % 10) + 1]>>

isDigit(c) == \E i \in 1..10 : Digits[i] = c
digitValue(c) == (CHOOSE i \in 1..10 : Digits[i] = c) - 1

RECURSIVE NumeralValue(_)
NumeralValue(t) ==
    IF t = <<>> THEN 0
    ELSE 10 * NumeralValue(SubSeq(t, 1, Len(t) - 1)) + digitValue(t[Len(t)])

\* Python 2 str(value) of a float: '%.12g', i.e. the value rounded (half to
\* even) to 12 significant digits.  A grid value v stands for v / StrStep units
\* of the 12th digit; the text is the numeral of the rounded count of units.
RoundHalfEven(v) ==
    LET n == v \div StrStep
        r == v % StrStep
    IN  IF 2 * r < StrStep THEN n
        ELSE IF 2 * r > StrStep THEN n + 1
        ELSE IF n % 2 = 0 THEN n ELSE n + 1

PyStr(v) == Numeral(RoundHalfEven(v))

\* float(text): the grid value the text denotes; text that is no numeral raises
\* ValueError
isFloatText(t) == strip(t) # <<>> /\ \A i \in 1..Len(strip(t)) : isDigit(strip(t)[i])
PyFloat(t) == NumeralValue(strip(t)) * StrStep

----------------------------------------------------------------------------
(* ConfigParser: the 'markers' section as an ordered dictionary *)

optionxform(name) == lower(name)

hasOption(d, opt) == \E i \in 1..Len(d) : d[i].opt = opt
optionText(d, opt) == d[CHOOSE i \in 1..Len(d) : d[i].opt = opt].val

\* sectdict[opt] = text: an existing key keeps its place, a new one goes last
dictSet(d, opt, text) ==
    IF hasOption(d, opt)
    THEN [i \in 1..Len(d) |-> IF d[i].opt = opt THEN [opt |-> opt, val |-> text] ELSE d[i]]
    ELSE Append(d, [opt |-> opt, val |-> text])

RECURSIVE dictDel(_, _)
dictDel(d, opt) ==
    IF d = <<>> THEN <<>>
    ELSE IF Head(d).opt = opt THEN dictDel(Tail(d), opt)
    ELSE <<Head(d)>> \o dictDel(Tail(d), opt)

\* the marker set as a set of (name, text) pairs
itemSet(d) == {<<d[i].opt, d[i].val>> : i \in 1..Len(d)}

----------------------------------------------------------------------------
(* ConfigParser: the ini file, as write() emits it and _read() parses it *)

SectionLine == <<"[","m","a","r","k","e","r","s","]">>

optionLine(e) == e.opt \o <<" ", "=", " ">> \o e.val

\* RawConfigParser.write: the section header, one line per option, a blank line
IniWrite(d) == <<SectionLine>> \o [i \in 1..Len(d) |-> optionLine(d[i])] \o << <<>> >>

isDelimiter(c) == c \in {"=", ":"}
hasDelimiter(line) == \E i \in 1..Len(line) : isDelimiter(line[i])
firstDelimiter(line) ==
    CHOOSE i \in 1..Len(line) :
        isDelimiter(line[i]) /\ \A j \in 1..(i - 1) : ~isDelimiter(line[j])

isSectionHeader(line) ==
    /\ Len(line) >= 3
    /\ line[1] = "["
    /\ line[2] # "]"
    /\ \E i \in 3..Len(line) : line[i] = "]"

sectionName(line) ==
    SubSeq(line, 2, (CHOOSE i \in 3..Len(line) :
                        line[i] = "]" /\ \A j \in 2..(i - 1) : line[j] # "]") - 1)

\* OPTCRE: (?P<option>[^:=\s][^:=]*)\s*(?P<vi>[:=])\s*(?P<value>.*)$
isOptionLine(line) ==
    line # <<>> /\ ~isDelimiter(line[1]) /\ ~isSpace(line[1]) /\ hasDelimiter(line)

unquoteEmpty(t) == IF t = <<"\"", "\"">> THEN <<>> ELSE t

\* one line of RawConfigParser._read; acc = [sect, d, exc].  Continuation
\* lines, 'rem' comments and inline ' ;' comments are left out: no line that
\* write() emits for the names and values used here begins with white space
\* or 'rem', or holds a ';'.
readLine(acc, line) ==
    IF acc.exc # "none" THEN acc
    ELSE IF strip(line) = <<>> \/ line[1] \in {"#", ";"} THEN acc
    ELSE IF isSectionHeader(line)
    THEN [acc EXCEPT !.sect = IF sectionName(line) = SubSeq(SectionLine, 2, 8)
                              THEN "markers" ELSE "other"]
    ELSE IF acc.sect = "none" THEN [acc EXCEPT !.exc = "MissingSectionHeaderError"]
    ELSE IF isOptionLine(line)
    THEN LET i == firstDelimiter(line)
             opt == optionxform(rstrip(SubSeq(line, 1, i - 1)))
             val == unquoteEmpty(strip(SubSeq(line, i + 1, Len(line))))
         IN  IF acc.sect = "markers"
             THEN [acc EXCEPT !.d = dictSet(acc.d, opt, val)]
             ELSE acc
    ELSE [acc EXCEPT !.exc = "ParsingError"]

RECURSIVE readLines(_, _)
readLines(acc, lines) ==
    IF lines = <<>> THEN acc
    ELSE readLines(readLine(acc, Head(lines)), Tail(lines))

\* RawConfigParser.read of an existing file
IniRead(lines) == readLines([sect |-> "none", d |-> <<>>, exc |-> "none"], lines)

----------------------------------------------------------------------------
(* Inputs *)

SURFACE == <<"s","u","r","f","a","c","e">>
GROUND == <<"g","r","o","u","n","d">>

\* marker names the callers of the marker store use
MarkerNames == {SURFACE, <<"S","u","r","f","a","c","e">>, GROUND}

\* marker names of the save / load round trip
RoundTripNames == {SURFACE, <<"a","=","b">>}

Values == 0..MaxValue
Fallbacks == Values \cup {NoneVal}

\* self.ini_filename when the constructor gets none: the pnt path with '.ini'
DefaultIni == "p.ini"
Paths == {DefaultIni}
\* a path argument: '' stands for the omitted (None) argument
PathArgs == {""} \cup Paths

\* the record of a call; the fields a call does not use keep these values
NoCall ==
    [op |-> "none", name |-> <<>>, a |-> NoneVal, b |-> NoneVal, rel |-> FALSE,
     path |-> "", exc |-> "none", val |-> NoneVal, rows |-> <<>>]

----------------------------------------------------------------------------
(* Marker store: marker, set_marker, remove_marker, save, and the constructor's
   loading of the ini file *)

\* Profile.marker(name, fallback): [exc, val]
marker(d, name, fallback) ==
    LET opt == optionxform(name)
    IN  IF hasOption(d, opt)
        THEN IF isFloatText(optionText(d, opt))
             THEN [exc |-> "none", val |-> PyFloat(optionText(d, opt))]
             ELSE [exc |-> "ValueError", val |-> NoneVal]
        ELSE IF fallback # NoneVal /\ fallback # 0      \* `if fallback:`
             THEN [exc |-> "none", val |-> fallback]
             ELSE [exc |-> "KeyError(NoOptionError)", val |-> NoneVal]

\* Profile.set_marker(name, value): the section after the call
set_marker(d, name, value) == dictSet(d, optionxform(name), PyStr(value))

\* Profile.remove_marker(name): the section after the call; remove_option's
\* boolean result is dropped and nothing is raised
remove_marker(d, name) == dictDel(d, optionxform(name))

Marker(name, fallback) ==
    /\ res' = [NoCall EXCEPT !.op = "marker", !.name = name, !.a = fallback,
                             !.exc = marker(ini, name, fallback).exc,
                             !.val = marker(ini, name, fallback).val]
    /\ UNCHANGED <<header, latitude, longitude, samples, ini, ini_filename, files, s, g>>

SetMarker(name, value) ==
    /\ ini' = set_marker(ini, name, value)
    /\ res' = [NoCall EXCEPT !.op = "set_marker", !.name = name, !.a = value]
    /\ UNCHANGED <<header, latitude, longitude, samples, ini_filename, files, s, g>>

RemoveMarker(name) ==
    /\ ini' = remove_marker(ini, name)
    /\ res' = [NoCall EXCEPT !.op = "remove_marker", !.name = name]
    /\ UNCHANGED <<header, latitude, longitude, samples, ini_filename, files, s, g>>

\* Profile.save(ini_filename) of a Profile whose default path is own:
\* [exc, files]
saveWithoutCheck(d, own, fs, path) ==
    LET filename == IF path # "" THEN path ELSE own
    IN  [exc |-> IF d = <<>> THEN "ValueError(Nothing to save)" ELSE "none",
         files |-> [fs EXCEPT ![filename] = IniWrite(d)]]

save(d, own, fs, path) ==
    LET filename == IF path # "" THEN path ELSE own
    IN  IF d = <<>>
        THEN [exc |-> "ValueError(Nothing to save)", files |-> fs]
        ELSE [exc |-> "none", files |-> [fs EXCEPT ![filename] = IniWrite(d)]]

Save(path) ==
    /\ res' = [NoCall EXCEPT !.op = "save", !.path = path,
                             !.exc = save(ini, ini_filename, files, path).exc]
    /\ files' = save(ini, ini_filename, files, path).files
    /\ UNCHANGED <<header, latitude, longitude, samples, ini, ini_filename, s, g>>

\* Profile(pnt_filename, ini_filename) on the same pnt file, lines 62-77:
\* [exc, d, ini_filename].  The file is read when it exists; the section
\* 'markers' is added when the file did not bring it.
construct(fs, path) ==
    LET target == IF path # "" THEN path ELSE DefaultIni
        r == IF fs[target] # Absent THEN IniRead(fs[target])
             ELSE [sect |-> "none", d |-> <<>>, exc |-> "none"]
    IN  [exc |-> r.exc, d |-> r.d, ini_filename |-> target]

\* A constructor that raises leaves the caller with the Profile it had.
Load(path) ==
    /\ IF construct(files, path).exc = "none"
       THEN /\ ini' = construct(files, path).d
            /\ ini_filename' = construct(files, path).ini_filename
       ELSE UNCHANGED <<ini, ini_filename>>
    /\ res' = [NoCall EXCEPT !.op = "load", !.path = path,
                             !.exc = construct(files, path).exc]
    /\ UNCHANGED <<header, latitude, longitude, samples, files, s, g>>

\* A Profile of a pnt file of the northern and eastern hemisphere, constructed
\* with no ini file on disk
InitMarkers ==
    /\ header = [lat |-> 0, lon |-> 0, north |-> <<"N">>, east |-> <<"E">>]
    /\ latitude = 0
    /\ longitude = 0
    /\ samples = <<[d |-> 0, f |-> 0]>>
    /\ ini = <<>>
    /\ ini_filename = DefaultIni
    /\ files = [p \in Paths |-> Absent]
    /\ s = NoneVal
    /\ g = NoneVal
    /\ res = NoCall

NextMarkers ==
    \/ \E name \in MarkerNames, fallback \in Fallbacks : Marker(name, fallback)
    \/ \E name \in MarkerNames, value \in Values : SetMarker(name, value)
    \/ \E name \in MarkerNames : RemoveMarker(name)
    \/ \E path \in PathArgs : Save(path)
    \/ \E path \in PathArgs : Load(path)

SpecMarkers == InitMarkers /\ [][NextMarkers]_vars

NextRoundTrip ==
    \/ \E name \in RoundTripNames, value \in Values : SetMarker(name, value)
    \/ \E name \in RoundTripNames : RemoveMarker(name)
    \/ \E path \in PathArgs : Save(path)
    \/ \E path \in PathArgs : Load(path)

SpecRoundTrip == InitMarkers /\ [][NextRoundTrip]_vars

----------------------------------------------------------------------------
(* Sample view and derived markers: samples_within, snowpack, detect_surface,
   detect_ground *)

Depths == 0..MaxDepth
DepthArgs == Depths \cup {NoneVal}

\* Sample tables as Pnt.load_pnt delivers them: at least one row, depths in
\* non-decreasing order.  The force of a row is its index, so every row of a
\* table is told from the others.
Tables ==
    UNION {{[i \in 1..n |-> [d |-> ds[i], f |-> i]] :
                ds \in {x \in [1..n -> Depths] : \A i \in 1..(n - 1) : x[i] <= x[i + 1]}} :
           n \in 1..MaxRows}

\* self.samples[condition]: the rows whose mask bit is set, in table order
RECURSIVE maskRows(_, _)
maskRows(rows, condition) ==
    IF rows = <<>> THEN <<>>
    ELSE (IF Head(condition) THEN <<Head(rows)>> ELSE <<>>)
         \o maskRows(Tail(rows), Tail(condition))

\* np.subtract(samples, [offset, 0])
subtractOffset(rows, offset) ==
    [i \in 1..Len(rows) |-> [d |-> rows[i].d - offset, f |-> rows[i].f - 0]]

\* samples_within without the flip of lines 199-200
samplesWithinNoFlip(tbl, start, end, relativize_distance) ==
    LET start1 == IF start = NoneVal THEN tbl[1].d ELSE start
        end1 == IF end = NoneVal THEN tbl[Len(tbl)].d ELSE end
        condition == [i \in 1..Len(tbl) |-> tbl[i].d > start1 /\ tbl[i].d < end1]
        within == maskRows(tbl, condition)
    IN  IF relativize_distance
        THEN IF within = <<>>
             THEN [exc |-> "IndexError", rows |-> <<>>]
             ELSE [exc |-> "none", rows |-> subtractOffset(within, within[1].d)]
        ELSE [exc |-> "none", rows |-> within]

\* samples_within with >= and <= in the condition of line 202
samplesWithinInclusive(tbl, start, end, relativize_distance) ==
    LET start1 == IF start = NoneVal THEN tbl[1].d ELSE start
        end1 == IF end = NoneVal THEN tbl[Len(tbl)].d ELSE end
        flip == start1 >= end1
        start2 == IF flip THEN end1 ELSE start1
        end2 == IF flip THEN start1 ELSE end1
        condition == [i \in 1..Len(tbl) |-> tbl[i].d >= start2 /\ tbl[i].d <= end2]
        within == maskRows(tbl, condition)
    IN  IF relativize_distance
        THEN IF within = <<>>
             THEN [exc |-> "IndexError", rows |-> <<>>]
             ELSE [exc |-> "none", rows |-> subtractOffset(within, within[1].d)]
        ELSE [exc |-> "none", rows |-> within]

\* Profile.samples_within(start, end, relativize_distance): [exc, rows]
samples_within(tbl, start, end, relativize_distance) ==
    LET start1 == IF start = NoneVal THEN tbl[1].d ELSE start
        end1 == IF end = NoneVal THEN tbl[Len(tbl)].d ELSE end
        flip == start1 >= end1
        start2 == IF flip THEN end1 ELSE start1
        end2 == IF flip THEN start1 ELSE end1
        condition == [i \in 1..Len(tbl) |-> tbl[i].d > start2 /\ tbl[i].d < end2]
        within == maskRows(tbl, condition)
    IN  IF relativize_distance
        THEN IF within = <<>>
             THEN [exc |-> "IndexError", rows |-> <<>>]      \* samples[0, 0]
             ELSE [exc |-> "none", rows |-> subtractOffset(within, within[1].d)]
        ELSE [exc |-> "none", rows |-> within]

\* Profile.snowpack(relativize_distance): [exc, rows].  Only KeyError is caught
\* and raised again as 'Required marker missing'; anything else propagates.
snowpack(tbl, d, relativize_distance) ==
    LET sm == marker(d, SURFACE, NoneVal)
        gm == marker(d, GROUND, NoneVal)
    IN  IF sm.exc = "KeyError(NoOptionError)"
        THEN [exc |-> "KeyError(Required marker missing)", rows |-> <<>>]
        ELSE IF sm.exc # "none" THEN [exc |-> sm.exc, rows |-> <<>>]
        ELSE IF gm.exc = "KeyError(NoOptionError)"
        THEN [exc |-> "KeyError(Required marker missing)", rows |-> <<>>]
        ELSE IF gm.exc # "none" THEN [exc |-> gm.exc, rows |-> <<>>]
        ELSE samples_within(tbl, sm.val, gm.val, relativize_distance)

SamplesWithin(start, end, relativize_distance) ==
    /\ res' = [NoCall EXCEPT
                  !.op = "samples_within", !.a = start, !.b = end,
                  !.rel = relativize_distance,
                  !.exc = samples_within(samples, start, end, relativize_distance).exc,
                  !.rows = samples_within(samples, start, end, relativize_distance).rows]
    /\ UNCHANGED <<header, latitude, longitude, samples, ini, ini_filename, files, s, g>>

Snowpack(relativize_distance) ==
    /\ res' = [NoCall EXCEPT
                  !.op = "snowpack", !.rel = relativize_distance,
                  !.exc = snowpack(samples, ini, relativize_distance).exc,
                  !.rows = snowpack(samples, ini, relativize_distance).rows]
    /\ UNCHANGED <<header, latitude, longitude, samples, ini, ini_filename, files, s, g>>

\* Profile.detect_surface(): the detection function of snowmicropyn.analysis is
\* outside this file; it may return any depth.  The caller keeps the result.
DetectSurface(surface) ==
    /\ ini' = set_marker(ini, SURFACE, surface)
    /\ s' = surface
    /\ res' = [NoCall EXCEPT !.op = "detect_surface", !.val = surface]
    /\ UNCHANGED <<header, latitude, longitude, samples, ini_filename, files, g>>

\* Profile.detect_ground()
DetectGround(ground) ==
    /\ ini' = set_marker(ini, GROUND, ground)
    /\ g' = ground
    /\ res' = [NoCall EXCEPT !.op = "detect_ground", !.val = ground]
    /\ UNCHANGED <<header, latitude, longitude, samples, ini_filename, files, s>>

\* A Profile of any sample table, constructed with no ini file on disk
InitSamples ==
    /\ header = [lat |-> 0, lon |-> 0, north |-> <<"N">>, east |-> <<"E">>]
    /\ latitude = 0
    /\ longitude = 0
    /\ samples \in Tables
    /\ ini = <<>>
    /\ ini_filename = DefaultIni
    /\ files = [p \in Paths |-> Absent]
    /\ s = NoneVal
    /\ g = NoneVal
    /\ res = NoCall

NextSamples ==
    \E start \in DepthArgs, end \in DepthArgs, relativize_distance \in BOOLEAN :
        SamplesWithin(start, end, relativize_distance)

SpecSamples == InitSamples /\ [][NextSamples]_vars

NextSnowpack ==
    \/ \E surface \in Depths : DetectSurface(surface)
    \/ \E ground \in Depths : DetectGround(ground)
    \/ \E relativize_distance \in BOOLEAN : Snowpack(relativize_distance)
    \/ \E start \in DepthArgs, end \in DepthArgs : SamplesWithin(start, end, TRUE)

SpecSnowpack == InitSamples /\ [][NextSnowpack]_vars

----------------------------------------------------------------------------
(* Header clean-up of the constructor: WGS84 coordinates *)

Magnitudes == 0..MaxCoord
NorthLetters == {<<"N">>, <<"n">>, <<"S">>, <<"s">>}
EastLetters == {<<"E">>, <<"e">>, <<"W">>, <<"w">>}

\* Lines 32-40: [exc, latitude, longitude].  Lines 33-34 assign self.latitude
\* and self.longitude; lines 38 and 40 read self._latitude and
\* self._longitude, which nothing has assigned: AttributeError.
wgs84_coordinates(h) ==
    IF upper(h.north) # <<"N">> THEN [exc |-> "AttributeError", latitude |-> h.lat, longitude |-> h.lon]
    ELSE IF upper(h.east) # <<"E">> THEN [exc |-> "AttributeError", latitude |-> h.lat, longitude |-> h.lon]
    ELSE [exc |-> "none", latitude |-> h.lat, longitude |-> h.lon]

\* Profile(pnt_filename): a constructor that raises delivers no Profile
Construct ==
    /\ res' = [NoCall EXCEPT !.op = "construct", !.exc = wgs84_coordinates(header).exc]
    /\ IF wgs84_coordinates(header).exc = "none"
       THEN /\ latitude' = wgs84_coordinates(header).latitude
            /\ longitude' = wgs84_coordinates(header).longitude
       ELSE UNCHANGED <<latitude, longitude>>
    /\ UNCHANGED <<header, samples, ini, ini_filename, files, s, g>>

\* The decoded header of any pnt file, before the Profile is constructed
InitCoordinates ==
    /\ header \in [lat : Magnitudes, lon : Magnitudes,
                   north : NorthLetters, east : EastLetters]
    /\ latitude = 0
    /\ longitude = 0
    /\ samples = <<[d |-> 0, f |-> 1]>>
    /\ ini = <<>>
    /\ ini_filename = DefaultIni
    /\ files = [p \in Paths |-> Absent]
    /\ s = NoneVal
    /\ g = NoneVal
    /\ res = NoCall

NextCoordinates == Construct

SpecCoordinates == InitCoordinates /\ [][NextCoordinates]_vars

----------------------------------------------------------------------------
(* Claims about the marker store *)

\* C1: marker(name, fallback) returns the stored float when the name is
\* present; when it is absent it returns every non-None fallback (0 included)
\* unchanged and raises the 'marker not found' KeyError only without fallback.
C1_FallbackOrFail ==
    res.op = "marker" =>
        IF hasOption(ini, optionxform(res.name))
        THEN res.exc = "none" /\ res.val = PyFloat(optionText(ini, optionxform(res.name)))
        ELSE IF res.a # NoneVal
             THEN res.exc = "none" /\ res.val = res.a
             ELSE res.exc = "KeyError(NoOptionError)"

\* C2: remove_marker(name) of a name that is not in the marker set raises the
\* 'marker not found' error and leaves the marker set unchanged.
C2_RemoveAbsentFails ==
    [][(res'.op = "remove_marker" /\ ~hasOption(ini, optionxform(res'.name)))
        => (res'.exc = "KeyError(NoOptionError)" /\ ini' = ini)]_vars

\* C3: marker(name) without fallback returns exactly the value of the most
\* recent set_marker(name, v) not followed by remove_marker(name), and raises
\* 'marker not found' when name was never set or was removed last; calls on
\* other names (names the store tells apart) do not change it.  Stated call by call: a set makes the value
\* readable, a remove makes the read fail, and both leave every other name's
\* read as it was.
C3_SetGetRemove ==
    [][/\ res'.op = "set_marker"
            => marker(ini', res'.name, NoneVal) = [exc |-> "none", val |-> res'.a]
       /\ res'.op = "remove_marker"
            => marker(ini', res'.name, NoneVal).exc = "KeyError(NoOptionError)"
       /\ res'.op \in {"set_marker", "remove_marker"}
            => \A other \in MarkerNames \ {res'.name} :
                   optionxform(other) # optionxform(res'.name)
                   => marker(ini', other, NoneVal) = marker(ini, other, NoneVal)
      ]_vars

\* C4: save(path) with an empty marker set raises 'nothing to save' and leaves
\* the target file as it was: not created, not truncated, not overwritten.
C4_EmptySaveKeepsFile ==
    [][(res'.op = "save" /\ ini = <<>>)
        => (res'.exc = "ValueError(Nothing to save)" /\ files' = files)]_vars

C4_Witness ==
    /\ res.op = "save"
    /\ res.exc = "ValueError(Nothing to save)"
    /\ ini = <<>>
    /\ files[DefaultIni] # Absent

\* C5: save(path) of a non-empty marker set succeeds, and a Profile constructed
\* afterwards with that path has the saved marker set: same names, same
\* values, nothing added or lost.
C5_SaveLoadRoundTrip ==
    [][(res'.op = "save" /\ ini # <<>>)
        => LET target == IF res'.path # "" THEN res'.path ELSE ini_filename
               loaded == construct(files', target)
           IN  /\ res'.exc = "none"
               /\ loaded.exc = "none"
               /\ itemSet(loaded.d) = itemSet(ini)]_vars

----------------------------------------------------------------------------
(* Claims about the header clean-up *)

\* C6: construction succeeds for every magnitude and hemisphere letter, and
\* the exposed latitude is the header magnitude when the hemisphere field is
\* 'N' in any case and the negated magnitude otherwise; likewise the longitude
\* with 'E'.
C6_CoordinateSign ==
    res.op = "construct" =>
        /\ res.exc = "none"
        /\ latitude = IF upper(header.north) = <<"N">> THEN header.lat ELSE -header.lat
        /\ longitude = IF upper(header.east) = <<"E">> THEN header.lon ELSE -header.lon

----------------------------------------------------------------------------
(* Claims about the sample view and the derived markers *)

Minimum(a, b) == IF a <= b THEN a ELSE b
Maximum(a, b) == IF a >= b THEN a ELSE b

\* the rows of tbl with depth strictly between the two bounds, in table order
StrictlyBetween(tbl, a, b) ==
    LET inside(row) == Minimum(a, b) < row.d /\ row.d < Maximum(a, b)
    IN  SelectSeq(tbl, inside)

\* rows with the first row's depth taken off every depth, forces untouched
Relativized(rows) ==
    [i \in 1..Len(rows) |-> [d |-> rows[i].d - rows[1].d, f |-> rows[i].f]]

BothMarkersStored ==
    /\ marker(ini, SURFACE, NoneVal).exc = "none"
    /\ marker(ini, GROUND, NoneVal).exc = "none"

\* C7: samples_within(start, end, relativize=True) with no row strictly between
\* the bounds raises the checked 'empty range' error, and so does snowpack()
\* when the stored surface and ground markers enclose no row.
C7_EmptyRangeError ==
    /\ (/\ res.op = "samples_within" /\ res.rel
        /\ res.a # NoneVal /\ res.b # NoneVal
        /\ StrictlyBetween(samples, res.a, res.b) = <<>>)
       => res.exc = "EmptyRange"
    /\ (/\ res.op = "snowpack" /\ res.rel
        /\ BothMarkersStored
        /\ StrictlyBetween(samples, marker(ini, SURFACE, NoneVal).val,
                           marker(ini, GROUND, NoneVal).val) = <<>>)
       => res.exc = "EmptyRange"

\* C8: for depths a and b, samples_within(a, b, r) and samples_within(b, a, r)
\* return the same rows in the same order, or the same error, for both values
\* of r.
C8_SymmetricBounds ==
    (res.op = "samples_within" /\ res.a # NoneVal /\ res.b # NoneVal)
        => [exc |-> res.exc, rows |-> res.rows]
               = samples_within(samples, res.b, res.a, res.rel)

C8_Witness ==
    /\ res.op = "samples_within"
    /\ res.b # NoneVal
    /\ res.a > res.b
    /\ res.rel
    /\ Len(res.rows) >= 2

\* C9: without relativize, samples_within(start, end) returns exactly the rows,
\* in table order, whose depth lies strictly between the smaller and the
\* larger bound; an omitted start / end is the first / last depth of the
\* table, so the first / last row is excluded.
C9_StrictlyWithin ==
    (res.op = "samples_within" /\ ~res.rel)
        => LET a == IF res.a = NoneVal THEN samples[1].d ELSE res.a
               b == IF res.b = NoneVal THEN samples[Len(samples)].d ELSE res.b
           IN  /\ res.exc = "none"
               /\ res.rows = StrictlyBetween(samples, a, b)
               /\ \A i \in 1..Len(res.rows) : res.rows[i].d # a /\ res.rows[i].d # b

C9_Witness ==
    /\ res.op = "samples_within"
    /\ ~res.rel
    /\ res.a = NoneVal
    /\ res.b = NoneVal
    /\ res.rows # <<>>
    /\ Len(res.rows) < Len(samples)

\* C10: once detect_surface() and detect_ground() have returned s and g,
\* marker('surface') = s and marker('ground') = g, and snowpack() returns the
\* rows with depth strictly between s and g, each depth less the first such
\* row's depth, forces unchanged (given that such a row exists); with either
\* marker absent snowpack() raises 'required marker missing'.
C10_DetectThenSnowpack ==
    (res.op = "snowpack" /\ res.rel) =>
        IF s # NoneVal /\ g # NoneVal
        THEN /\ marker(ini, SURFACE, NoneVal) = [exc |-> "none", val |-> s]
             /\ marker(ini, GROUND, NoneVal) = [exc |-> "none", val |-> g]
             /\ StrictlyBetween(samples, s, g) # <<>>
                  => /\ res.exc = "none"
                     /\ res.rows = Relativized(StrictlyBetween(samples, s, g))
        ELSE res.exc = "KeyError(Required marker missing)"

====
